---------------------------- MODULE Spec2Model ----------------------------
(***************************************************************************)
(* A model of killall-rs: the /proc scan (list_pids_by_comm, check_entry), *)
(* the decimal parser of process identifiers (parse_pid_from_bytes, in its *)
(* u32 form of main.rs and its i32 form of processes.rs), the signal table *)
(* (SIGNALS, parse_signal) and the dispatch loop of main.                  *)
(*                                                                         *)
(* Byte strings are sequences of byte values (48..57 are the ASCII         *)
(* digits).  An Option<T> is a sequence of length at most one: <<>> is     *)
(* None and <<v>> is Some(v).  A u32 does not fit TLC's integers, so it is *)
(* kept as two 16-bit limbs [hi, lo] with value hi * 65536 + lo; an i32    *)
(* fits and is a plain integer.                                            *)
(***************************************************************************)
EXTENDS Integers, Sequences, FiniteSets, TLC

VARIABLES
    \* ---- parse_pid_from_bytes applied to one input
    bytes,        \* the input byte string
    parsed,       \* <<>> before the call, then <<[u32 |-> .., i32 |-> ..]>>
    \* ---- parse_signal applied to one input
    sigName,      \* the input name (code points)
    sigResult,    \* <<>> before the call, then <<Option<Signal>>>
    \* ---- one sequential call of list_pids_by_comm
    procRoot,     \* [listable |-> BOOLEAN, entries |-> Seq(entry)]
    target,       \* target_name as bytes
    scanResult,   \* <<>> before the call, then <<[main |-> .., processes |-> ..]>>
    visits,       \* how often each directory entry was handed to check_entry
    \* ---- one parallel (rayon) call of list_pids_by_comm
    parPc,        \* "init" | "run" | "done"
    bridge,       \* index of the next entry the shared iterator hands out
    worker,       \* per worker: [item |-> 0 or entry index, acc |-> Seq(pid)]
    parResult,    \* <<>> until collect, then <<Result>>
    \* ---- main
    args,         \* [list, signal, process_names]
    pc,           \* position in main
    sig,          \* the resolved signal
    idx,          \* index of the current process name
    pids,         \* matches for the current name
    k,            \* index of the next pid to signal
    delivered,    \* identifiers for which kill was called, for the current name
    sent,         \* every [pid, sig] handed to kill in this run
    discoveries,  \* calls of list_pids_by_comm made so far
    flags,        \* [miss, discErr, killErr, listed]
    exitCode      \* -1 while running, then the exit status

parseVars == <<bytes, parsed>>
sigVars   == <<sigName, sigResult>>
scanVars  == <<scanResult, visits>>
parVars   == <<parPc, bridge, worker, parResult>>
envVars   == <<procRoot, target>>
mainVars  == <<args, pc, sig, idx, pids, k, delivered, sent, discoveries, flags, exitCode>>
vars      == <<parseVars, sigVars, scanVars, parVars, envVars, mainVars>>

---------------------------------------------------------------------------
(* Options and small helpers                                               *)

None == <<>>
Some(v) == <<v>>

RECURSIVE Zeros(_)
Zeros(n) == IF n = 0 THEN <<>> ELSE <<48>> \o Zeros(n - 1)

RECURSIVE SeqsUpTo(_, _)
SeqsUpTo(S, n) ==
    IF n = 0 THEN {<<>>}
    ELSE LET shorter == SeqsUpTo(S, n - 1)
         IN  shorter \cup {Append(s, x) : s \in shorter, x \in S}

Range(s) == {s[i] : i \in 1..Len(s)}

---------------------------------------------------------------------------
(* Integer widths                                                          *)

U32Base == 65536
MaxI32 == 2147483647

U32(h, l) == [hi |-> h, lo |-> l]
ZeroU32 == U32(0, 0)

\* u32::checked_mul with a small multiplier
checked_mul_u32(x, m) ==
    LET lo10 == x.lo * m
        hi10 == x.hi * m + (lo10 \div U32Base)
    IN  IF hi10 >= U32Base THEN None ELSE Some(U32(hi10, lo10 % U32Base))

\* u32::checked_add with a small addend
checked_add_u32(x, d) ==
    LET lo1 == x.lo + d
        hi1 == x.hi + (lo1 \div U32Base)
    IN  IF hi1 >= U32Base THEN None ELSE Some(U32(hi1, lo1 % U32Base))

\* i32::checked_mul and i32::checked_add on non-negative operands
checked_mul_i32(x, m) == IF x > MaxI32 \div m THEN None ELSE Some(x * m)
checked_add_i32(x, d) == IF x > MaxI32 - d THEN None ELSE Some(x + d)

\* `pid as i32`: the two's complement reading of the 32 bits
as_i32(x) ==
    IF x.hi < U32Base \div 2 THEN x.hi * U32Base + x.lo
    ELSE (x.hi - U32Base) * U32Base + x.lo

is_ascii_digit(b) == b >= 48 /\ b <= 57

---------------------------------------------------------------------------
(* parse_pid_from_bytes                                                    *)

RECURSIVE parse_loop_u32(_, _, _)
parse_loop_u32(bs, i, result) ==
    IF i > Len(bs) THEN Some(result)
    ELSE IF ~is_ascii_digit(bs[i]) THEN None
    ELSE LET m == checked_mul_u32(result, 10)
         IN  IF m = None THEN None
             ELSE LET a == checked_add_u32(m[1], bs[i] - 48)
                  IN  IF a = None THEN None ELSE parse_loop_u32(bs, i + 1, a[1])

\* parse_pid_from_bytes without its final test for zero
parse_pid_from_bytes_no_zero_test(bs) ==
    IF Len(bs) = 0 \/ Len(bs) > 10 THEN None ELSE parse_loop_u32(bs, 1, ZeroU32)

\* main.rs: Option<u32>
parse_pid_from_bytes(bs) ==
    IF Len(bs) = 0 \/ Len(bs) > 10 THEN None
    ELSE LET r == parse_loop_u32(bs, 1, ZeroU32)
         IN  IF r = None THEN None
             ELSE IF r[1] = ZeroU32 THEN None ELSE r

RECURSIVE parse_loop_i32(_, _, _)
parse_loop_i32(bs, i, result) ==
    IF i > Len(bs) THEN Some(result)
    ELSE IF ~is_ascii_digit(bs[i]) THEN None
    ELSE LET m == checked_mul_i32(result, 10)
         IN  IF m = None THEN None
             ELSE LET a == checked_add_i32(m[1], bs[i] - 48)
                  IN  IF a = None THEN None ELSE parse_loop_i32(bs, i + 1, a[1])

\* processes.rs: Option<i32>
processes_parse_pid_from_bytes(bs) ==
    IF Len(bs) = 0 \/ Len(bs) > 10 THEN None
    ELSE LET r == parse_loop_i32(bs, 1, 0)
         IN  IF r = None THEN None
             ELSE IF r[1] = 0 THEN None ELSE r

---------------------------------------------------------------------------
(* Specification SpecParse: parse_pid_from_bytes on bounded inputs         *)

MaxZeros == 2
MaxBody == 3

\* '+', '/', '0', '1', '9', ':', 'a': digits, both neighbours of the digit
\* range, a sign and a letter
ByteAlphabet == {43, 47, 48, 49, 57, 58, 97}

Digits(ds) == [i \in 1..Len(ds) |-> 48 + ds[i]]

MaxU32Numeral == Digits(<<4, 2, 9, 4, 9, 6, 7, 2, 9, 5>>)
MaxI32Numeral == Digits(<<2, 1, 4, 7, 4, 8, 3, 6, 4, 7>>)

BoundaryNumerals ==
    { MaxU32Numeral, MaxI32Numeral,
      Digits(<<4, 2, 9, 4, 9, 6, 7, 2, 9, 6>>),
      Digits(<<4, 2, 9, 4, 9, 6, 7, 3, 0, 0>>),
      Digits(<<2, 1, 4, 7, 4, 8, 3, 6, 4, 8>>),
      Digits(<<2, 1, 4, 7, 4, 8, 3, 6, 5, 0>>),
      Digits(<<9, 9, 9, 9, 9, 9, 9, 9, 9, 9>>),
      Digits(<<4, 2, 9, 4, 9, 6, 7, 2, 9>>),
      Digits(<<0, 0, 0, 0, 0, 0, 0, 1>>),
      Digits(<<1, 2, 3, 4>>),
      Digits(<<1, 2, 3, 4, 5>>),
      Digits(<<1, 8, 4, 4, 6, 7, 4, 4, 0, 7, 3>>) }

ParseInputs ==
    {Zeros(z) \o body : z \in 0..MaxZeros,
                        body \in SeqsUpTo(ByteAlphabet, MaxBody) \cup BoundaryNumerals}

ParseIdle == bytes = <<>> /\ parsed = <<>>
SigIdle == sigName = <<>> /\ sigResult = <<>>
EnvIdle == procRoot = [listable |-> TRUE, entries |-> <<>>] /\ target = <<>>
ScanIdle == scanResult = <<>> /\ visits = <<>>
ParIdle == parPc = "idle" /\ bridge = 0 /\ worker = <<>> /\ parResult = <<>>
MainIdle ==
    /\ args = [list |-> FALSE, signal |-> None, process_names |-> <<>>]
    /\ pc = "idle" /\ sig = "" /\ idx = 0 /\ pids = <<>> /\ k = 0
    /\ delivered = <<>> /\ sent = {} /\ discoveries = 0
    /\ flags = [miss |-> FALSE, discErr |-> FALSE, killErr |-> FALSE, listed |-> FALSE]
    /\ exitCode = -1

InitParse ==
    /\ bytes \in ParseInputs
    /\ parsed = <<>>
    /\ SigIdle /\ EnvIdle /\ ScanIdle /\ ParIdle /\ MainIdle

\* one call of each of the two parsers on the same input
ParseCall ==
    /\ parsed = <<>>
    /\ parsed' = <<[u32 |-> parse_pid_from_bytes(bytes),
                    i32 |-> processes_parse_pid_from_bytes(bytes)]>>
    /\ UNCHANGED <<bytes, sigVars, scanVars, parVars, envVars, mainVars>>

NextParse == ParseCall

SpecParse == InitParse /\ [][NextParse]_vars

\* ---- what the claim says, stated on decimal numerals

AllDigits(bs) == \A i \in 1..Len(bs) : bs[i] \in 48..57

\* the numeral without its leading zeros; <<>> is the value zero
RECURSIVE Canon(_)
Canon(bs) == IF bs # <<>> /\ bs[1] = 48 THEN Canon(Tail(bs)) ELSE bs

\* a <= b for two numerals without leading zeros
NumeralLeq(a, b) ==
    \/ Len(a) < Len(b)
    \/ /\ Len(a) = Len(b)
       /\ \/ a = b
          \/ \E i \in 1..Len(a) :
                /\ a[i] < b[i]
                /\ \A j \in 1..(i - 1) : a[j] = b[j]

\* the decimal numeral of a u32, by long division of the two limbs
RECURSIVE DecimalU32(_)
DecimalU32(x) ==
    IF x = ZeroU32 THEN <<>>
    ELSE LET t == (x.hi % 10) * U32Base + x.lo
         IN  Append(DecimalU32(U32(x.hi \div 10, t \div 10)), 48 + (t % 10))

RECURSIVE DecimalI32(_)
DecimalI32(n) == IF n <= 0 THEN <<>> ELSE Append(DecimalI32(n \div 10), 48 + (n % 10))

\* the input denotes a value v with 0 < v <= max
InRange(bs, maxNumeral) ==
    /\ AllDigits(bs)
    /\ Canon(bs) # <<>>
    /\ NumeralLeq(Canon(bs), maxNumeral)

ParsedAs(accept, r, decimal) ==
    IF accept THEN r # None /\ decimal = Canon(bytes) ELSE r = None

\* C1 as written: every all-digit input whose value v satisfies 0 < v <= max
\* parses to Some(v), and every other input to None.
C1_AsClaimed ==
    parsed # <<>> =>
        /\ ParsedAs(InRange(bytes, MaxU32Numeral), parsed[1].u32,
                    IF parsed[1].u32 = None THEN <<>> ELSE DecimalU32(parsed[1].u32[1]))
        /\ ParsedAs(InRange(bytes, MaxI32Numeral), parsed[1].i32,
                    IF parsed[1].i32 = None THEN <<>> ELSE DecimalI32(parsed[1].i32[1]))

\* C1 amended: an all-digit input of at most 10 bytes whose value v satisfies
\* 0 < v <= max parses to Some(v); every other input, an all-digit input of
\* more than 10 bytes included, parses to None.
C1_Amended ==
    parsed # <<>> =>
        /\ ParsedAs(Len(bytes) <= 10 /\ InRange(bytes, MaxU32Numeral), parsed[1].u32,
                    IF parsed[1].u32 = None THEN <<>> ELSE DecimalU32(parsed[1].u32[1]))
        /\ ParsedAs(Len(bytes) <= 10 /\ InRange(bytes, MaxI32Numeral), parsed[1].i32,
                    IF parsed[1].i32 = None THEN <<>> ELSE DecimalI32(parsed[1].i32[1]))

\* C1, witness: a 10 byte input with leading zeros was accepted by both parsers
C1_Witness ==
    /\ parsed # <<>>
    /\ Len(bytes) = 10 /\ bytes[1] = 48
    /\ parsed[1].u32 # None /\ parsed[1].i32 # None

---------------------------------------------------------------------------
(* The signal table and parse_signal.  Names are sequences of code points. *)

SIGNALS ==
    <<
       [name |-> <<73, 78, 84>>, signal |-> "SIGINT"],
       [name |-> <<84, 69, 82, 77>>, signal |-> "SIGTERM"],
       [name |-> <<75, 73, 76, 76>>, signal |-> "SIGKILL"],
       [name |-> <<72, 85, 80>>, signal |-> "SIGHUP"],
       [name |-> <<81, 85, 73, 84>>, signal |-> "SIGQUIT"],
       [name |-> <<85, 83, 82, 49>>, signal |-> "SIGUSR1"],
       [name |-> <<85, 83, 82, 50>>, signal |-> "SIGUSR2"],
       [name |-> <<65, 76, 82, 77>>, signal |-> "SIGALRM"],
       [name |-> <<67, 79, 78, 84>>, signal |-> "SIGCONT"],
       [name |-> <<83, 84, 79, 80>>, signal |-> "SIGSTOP"],
       [name |-> <<84, 83, 84, 80>>, signal |-> "SIGTSTP"],
       [name |-> <<67, 72, 76, 68>>, signal |-> "SIGCHLD"],
       [name |-> <<80, 73, 80, 69>>, signal |-> "SIGPIPE"],
       [name |-> <<83, 69, 71, 86>>, signal |-> "SIGSEGV"],
       [name |-> <<65, 66, 82, 84>>, signal |-> "SIGABRT"],
       [name |-> <<73, 76, 76>>, signal |-> "SIGILL"],
       [name |-> <<84, 82, 65, 80>>, signal |-> "SIGTRAP"],
       [name |-> <<66, 85, 83>>, signal |-> "SIGBUS"],
       [name |-> <<70, 80, 69>>, signal |-> "SIGFPE"],
       [name |-> <<84, 84, 73, 78>>, signal |-> "SIGTTIN"],
       [name |-> <<84, 84, 79, 85>>, signal |-> "SIGTTOU"],
       [name |-> <<85, 82, 71>>, signal |-> "SIGURG"],
       [name |-> <<88, 67, 80, 85>>, signal |-> "SIGXCPU"],
       [name |-> <<88, 70, 83, 90>>, signal |-> "SIGXFSZ"],
       [name |-> <<86, 84, 65, 76, 82, 77>>, signal |-> "SIGVTALRM"],
       [name |-> <<80, 82, 79, 70>>, signal |-> "SIGPROF"],
       [name |-> <<87, 73, 78, 67, 72>>, signal |-> "SIGWINCH"],
       [name |-> <<73, 79>>, signal |-> "SIGIO"],
       [name |-> <<80, 87, 82>>, signal |-> "SIGPWR"],
       [name |-> <<83, 89, 83>>, signal |-> "SIGSYS"]
    >>

\* char::to_uppercase: ASCII letters, and the non-ASCII letters whose
\* uppercase form is ASCII (U+00DF, U+0131, U+017F and the ligatures U+FB00 to
\* U+FB06); any other code point of the inputs considered here is its own
\* uppercase form
to_uppercase_char(c) ==
    IF c >= 97 /\ c <= 122 THEN <<c - 32>>
    ELSE IF c = 223 THEN <<83, 83>>
    ELSE IF c = 305 THEN <<73>>
    ELSE IF c = 383 THEN <<83>>
    ELSE IF c = 64256 THEN <<70, 70>>
    ELSE IF c = 64257 THEN <<70, 73>>
    ELSE IF c = 64258 THEN <<70, 76>>
    ELSE IF c = 64259 THEN <<70, 70, 73>>
    ELSE IF c = 64260 THEN <<70, 70, 76>>
    ELSE IF c = 64261 \/ c = 64262 THEN <<83, 84>>
    ELSE <<c>>

RECURSIVE to_uppercase(_)
to_uppercase(name) ==
    IF name = <<>> THEN <<>>
    ELSE to_uppercase_char(Head(name)) \o to_uppercase(Tail(name))

\* SIGNALS.iter().find(..).map(..): the first entry with that name
RECURSIVE find_signal(_, _)
find_signal(i, upper) ==
    IF i > Len(SIGNALS) THEN None
    ELSE IF SIGNALS[i].name = upper THEN Some(SIGNALS[i].signal)
    ELSE find_signal(i + 1, upper)

\* parse_signal comparing the name as given
parse_signal_as_given(name) == find_signal(1, name)

parse_signal(name) == find_signal(1, to_uppercase(name))

\* every name of the table with each letter in either case, and names that
\* are not in the table
LowerWhere(base, mask) ==
    [i \in 1..Len(base) |->
        IF mask[i] /\ base[i] >= 65 /\ base[i] <= 90 THEN base[i] + 32 ELSE base[i]]

OtherNames ==
    { <<>>,
      <<110, 111, 116, 97, 115, 105, 103, 110, 97, 108>>,
      <<83, 73, 71, 84, 69, 82, 77>>,
      <<115, 105, 103, 116, 101, 114, 109>>,
      <<84, 69, 82>>, <<116, 101, 114, 109, 115>>, <<32, 116, 101, 114, 109>>,
      <<49, 53>>, <<57>>,
      <<305, 111>>, <<383, 89, 83>>, <<223>>, <<304, 78, 84>>,
      <<64262, 111, 112>>, <<116, 64261, 80>>, <<64257, 108, 108>> }

SigInputs ==
    {LowerWhere(SIGNALS[i].name, mask) :
        i \in 1..Len(SIGNALS), mask \in [1..6 -> BOOLEAN]} \cup OtherNames

InitSignal ==
    /\ sigName \in SigInputs
    /\ sigResult = <<>>
    /\ ParseIdle /\ EnvIdle /\ ScanIdle /\ ParIdle /\ MainIdle

ParseSignalCall ==
    /\ sigResult = <<>>
    /\ sigResult' = <<parse_signal(sigName)>>
    /\ UNCHANGED <<sigName, parseVars, scanVars, parVars, envVars, mainVars>>

NextSignal == ParseSignalCall

SpecSignal == InitSignal /\ [][NextSignal]_vars

\* the other ASCII case of a letter
FlipCase(c) ==
    IF c >= 65 /\ c <= 90 THEN c + 32
    ELSE IF c >= 97 /\ c <= 122 THEN c - 32
    ELSE c

\* the names that differ from `name` in the case of ASCII letters only
RECURSIVE CaseVariants(_)
CaseVariants(name) ==
    IF name = <<>> THEN {<<>>}
    ELSE {<<c>> \o rest : c \in {Head(name), FlipCase(Head(name))},
                          rest \in CaseVariants(Tail(name))}

\* C6: parse_signal returns the signal of the table entry whose name is the
\* uppercased input and None when there is no such entry, and every input
\* that differs from this one in letter case only resolves to the same signal.
C6_CaseInsensitive ==
    sigResult # <<>> =>
        LET r == sigResult[1]
            hits == {i \in 1..Len(SIGNALS) : SIGNALS[i].name = to_uppercase(sigName)}
        IN  /\ hits = {} => r = None
            /\ \A i \in hits : r = Some(SIGNALS[i].signal)
            /\ \A v \in CaseVariants(sigName) : parse_signal(v) = r

\* C6, witness: "Term" resolved to SIGTERM
C6_Witness ==
    /\ sigName = <<84, 101, 114, 109>>
    /\ sigResult = <<Some("SIGTERM")>>

---------------------------------------------------------------------------
(* The process table and check_entry                                       *)
(*                                                                         *)
(* procRoot.listable says whether fs::read_dir("/proc") succeeds; entries  *)
(* is what the directory iterator yields, in its order.  An entry with     *)
(* ok = FALSE is an Err item of the iterator.  comm describes the file     *)
(* <entry>/comm: whether it opens, whether reading it succeeds, its bytes. *)

NL == 10

DirEntry(name, comm) == [ok |-> TRUE, name |-> name, comm |-> comm]
File(data) == [open |-> TRUE, read |-> TRUE, data |-> data]
OpenFails == [open |-> FALSE, read |-> FALSE, data |-> <<>>]
ReadFails == [open |-> TRUE, read |-> FALSE, data |-> <<>>]
DirentErr == [ok |-> FALSE, name |-> <<>>, comm |-> OpenFails]

Ok(v) == [ok |-> TRUE, pids |-> v]
Err == [ok |-> FALSE, pids |-> <<>>]

Take(s, n) == IF Len(s) <= n THEN s ELSE SubSeq(s, 1, n)

\* BufRead::read_until(b'\n', buf) on an empty buf: the bytes up to and
\* including the first newline, or all of them when there is none
RECURSIVE read_until_newline(_)
read_until_newline(data) ==
    IF data = <<>> THEN <<>>
    ELSE IF Head(data) = NL THEN <<NL>>
    ELSE <<Head(data)>> \o read_until_newline(Tail(data))

\* if buf.last() == Some(&b'\n') { buf.pop() }
pop_newline(buf) ==
    IF buf # <<>> /\ buf[Len(buf)] = NL THEN SubSeq(buf, 1, Len(buf) - 1) ELSE buf

\* main.rs check_entry: Option<u32>
check_entry(entry, target_bytes) ==
    IF ~(\A i \in 1..Len(entry.name) : is_ascii_digit(entry.name[i])) THEN None
    ELSE LET pid == parse_pid_from_bytes(entry.name)
         IN  IF pid = None THEN None
             ELSE IF ~entry.comm.open THEN None
             ELSE IF entry.comm.read
                     /\ pop_newline(read_until_newline(entry.comm.data)) = target_bytes
                  THEN pid
                  ELSE None

\* processes.rs write_proc_comm_path: "/proc/" ++ decimal(pid) ++ "/comm"
RECURSIVE pid_digits(_)
pid_digits(n) == IF n <= 0 THEN <<>> ELSE Append(pid_digits(n \div 10), 48 + (n % 10))

ProcPrefix == <<47, 112, 114, 111, 99, 47>>
CommSuffix == <<47, 99, 111, 109, 109>>

write_proc_comm_path(pid) ==
    ProcPrefix \o (IF pid_digits(pid) = <<>> THEN <<48>> ELSE pid_digits(pid)) \o CommSuffix

\* fs::File::open(path) under /proc: the comm file of the directory of that name
open_path(root, path) ==
    LET hits == {i \in 1..Len(root.entries) :
                    /\ root.entries[i].ok
                    /\ ProcPrefix \o root.entries[i].name \o CommSuffix = path}
    IN  IF hits = {} THEN OpenFails ELSE root.entries[CHOOSE i \in hits : TRUE].comm

\* processes.rs check_entry: Option<i32>; one read into a 16 byte buffer
processes_check_entry(root, entry, target_bytes) ==
    LET pid == processes_parse_pid_from_bytes(entry.name)
    IN  IF pid = None THEN None
        ELSE LET f == open_path(root, write_proc_comm_path(pid[1]))
             IN  IF ~f.open \/ ~f.read THEN None
                 ELSE IF pop_newline(Take(f.data, 16)) = target_bytes THEN pid ELSE None

\* one pass of filter_map(|e| e.ok().and_then(check_entry)) from entry i on:
\* the matches in iteration order, and the entries met
RECURSIVE scan_from(_, _, _)
scan_from(root, i, target_bytes) ==
    IF i > Len(root.entries) THEN [main |-> <<>>, processes |-> <<>>, seen |-> <<>>]
    ELSE LET e == root.entries[i]
             rest == scan_from(root, i + 1, target_bytes)
         IN  [main |-> (IF e.ok THEN check_entry(e, target_bytes) ELSE None) \o rest.main,
              processes |->
                  (IF e.ok THEN processes_check_entry(root, e, target_bytes) ELSE None)
                      \o rest.processes,
              seen |-> <<i>> \o rest.seen]

\* list_pids_by_comm failing on an Err item of the directory iterator
list_pids_by_comm_strict(root, target_bytes) ==
    IF ~root.listable \/ \E i \in 1..Len(root.entries) : ~root.entries[i].ok THEN Err
    ELSE Ok(scan_from(root, 1, target_bytes).main)

\* main.rs list_pids_by_comm, sequential build
list_pids_by_comm(root, target_bytes) ==
    IF ~root.listable THEN Err ELSE Ok(scan_from(root, 1, target_bytes).main)

\* processes.rs list_pids_by_comm, sequential build
processes_list_pids_by_comm(root, target_bytes) ==
    IF ~root.listable THEN Err ELSE Ok(scan_from(root, 1, target_bytes).processes)

---------------------------------------------------------------------------
(* Specification SpecScan: one sequential call of list_pids_by_comm on a   *)
(* bounded process table                                                   *)

MaxEntries == 2

\* "1", "01", "0", "a", "4294967295"
EntryNames ==
    { <<49>>, <<48, 49>>, <<48>>, <<97>>, MaxU32Numeral }

\* "x\n", "x", "y\n", "x\ny\n", a file that does not open, one that does not read
CommStates ==
    { File(<<120, NL>>), File(<<120>>), File(<<121, NL>>),
      File(<<120, NL, 121, NL>>), OpenFails, ReadFails }

EntryPool == {DirEntry(n, c) : n \in EntryNames, c \in CommStates} \cup {DirentErr}

\* "x", "x\ny"
Targets == { <<120>>, <<120, NL, 121>> }

NamesOf(entries) == {entries[i].name : i \in {j \in 1..Len(entries) : entries[j].ok}}

\* the directory listings of at most n entries: names are distinct
RECURSIVE Listings(_, _)
Listings(pool, n) ==
    IF n = 0 THEN {<<>>}
    ELSE LET shorter == Listings(pool, n - 1)
         IN  shorter \cup
             UNION {{Append(t, e) : e \in {x \in pool : ~x.ok \/ x.name \notin NamesOf(t)}}
                        : t \in shorter}

InitScan ==
    /\ procRoot \in [listable : BOOLEAN, entries : Listings(EntryPool, MaxEntries)]
    /\ target \in Targets
    /\ scanResult = <<>>
    /\ visits = <<>>
    /\ ParseIdle /\ SigIdle /\ ParIdle /\ MainIdle

ScanCall ==
    /\ scanResult = <<>>
    /\ scanResult' = <<[main |-> list_pids_by_comm(procRoot, target),
                        processes |-> processes_list_pids_by_comm(procRoot, target)]>>
    /\ visits' = IF procRoot.listable THEN scan_from(procRoot, 1, target).seen ELSE <<>>
    /\ UNCHANGED <<parseVars, sigVars, parVars, envVars, mainVars>>

NextScan == ScanCall

SpecScan == InitScan /\ [][NextScan]_vars

\* ---- what the claims say about one call

Count(s, x) == Cardinality({i \in 1..Len(s) : s[i] = x})
NoDuplicates(s) == \A i, j \in 1..Len(s) : s[i] = s[j] => i = j

\* the whole record without one trailing newline
WholeRecord(data) ==
    IF data # <<>> /\ data[Len(data)] = NL THEN SubSeq(data, 1, Len(data) - 1) ELSE data

\* the entry is a numeric entry with an identifier
HasIdentifier(e) ==
    e.ok /\ AllDigits(e.name) /\ parse_pid_from_bytes(e.name) # None

\* the identifiers the claim expects: numeric entries whose record is readable
\* and, without its trailing newline, equal to the target
ExpectedIds(root, tgt) ==
    {parse_pid_from_bytes(e.name)[1] :
        e \in {x \in Range(root.entries) :
                  /\ HasIdentifier(x)
                  /\ x.comm.open /\ x.comm.read
                  /\ WholeRecord(x.comm.data) = tgt}}

\* C2 as written: the call returns exactly the identifiers of the numeric
\* entries whose readable record, less one trailing newline, is the target.
C2_AsClaimed ==
    (scanResult # <<>> /\ scanResult[1].main.ok) =>
        Range(scanResult[1].main.pids) = ExpectedIds(procRoot, target)

\* an entry that cannot contribute: an Err item, a name without an identifier,
\* a comm file that does not open or does not read
FailingEntry(e) == ~HasIdentifier(e) \/ ~e.comm.open \/ ~e.comm.read

WithoutFailing(root) ==
    [listable |-> root.listable,
     entries |-> SelectSeq(root.entries, LAMBDA e : ~FailingEntry(e))]

\* C3: the call is an error exactly when the root cannot be listed; failing
\* entries are only left out, the result being the matches among the others.
C3_OnlyRootFails ==
    scanResult # <<>> =>
        /\ scanResult[1].main.ok <=> procRoot.listable
        /\ scanResult[1].processes.ok <=> procRoot.listable
        /\ scanResult[1].main.ok =>
              scanResult[1].main.pids = scan_from(WithoutFailing(procRoot), 1, target).main

\* C3, witness: a listing with a failing entry and a matching one gave Ok
\* with the match
C3_Witness ==
    /\ scanResult # <<>>
    /\ scanResult[1].main.ok
    /\ scanResult[1].main.pids # <<>>
    /\ \E i \in 1..Len(procRoot.entries) :
          LET e == procRoot.entries[i]
          IN  ~e.ok \/ (HasIdentifier(e) /\ (~e.comm.open \/ ~e.comm.read))

\* C9 as written: each entry of the root is visited exactly once and no
\* identifier is in the result more than once, for any distinct entry names.
C9_AsClaimed ==
    (scanResult # <<>> /\ scanResult[1].main.ok) =>
        /\ \A i \in 1..Len(procRoot.entries) : Count(visits, i) = 1
        /\ NoDuplicates(scanResult[1].main.pids)
        /\ NoDuplicates(scanResult[1].processes.pids)

---------------------------------------------------------------------------
(* Specification SpecPar: list_pids_by_comm built with the rayon feature.  *)
(* par_bridge hands each item of the directory iterator to one worker; a   *)
(* worker applies the filter_map closure to its item and folds the outcome *)
(* into a vector of its own; collect appends the workers' vectors.         *)

NumWorkers == 2
MaxParEntries == 3

Workers == 1..NumWorkers

\* "1", "01", "2", "a" with "x\n", "y\n" or a comm file that does not open
ParPool ==
    {DirEntry(n, c) : n \in {<<49>>, <<48, 49>>, <<50>>, <<97>>},
                      c \in {File(<<120, NL>>), File(<<121, NL>>), OpenFails}}
        \cup {DirentErr}

InitPar ==
    /\ procRoot \in [listable : BOOLEAN, entries : Listings(ParPool, MaxParEntries)]
    /\ target = <<120>>
    /\ parPc = "init"
    /\ bridge = 0
    /\ worker = [w \in Workers |-> [item |-> 0, acc |-> <<>>]]
    /\ parResult = <<>>
    /\ visits = <<>>
    /\ scanResult = <<>>
    /\ ParseIdle /\ SigIdle /\ MainIdle

\* fs::read_dir("/proc")?
ParReadDir ==
    /\ parPc = "init"
    /\ IF procRoot.listable
       THEN parPc' = "run" /\ bridge' = 1 /\ parResult' = parResult
       ELSE parPc' = "done" /\ bridge' = bridge /\ parResult' = <<Err>>
    /\ UNCHANGED <<worker, visits, scanResult, parseVars, sigVars, envVars, mainVars>>

\* an idle worker takes the next item of the bridged iterator
ParTake(w) ==
    /\ parPc = "run"
    /\ worker[w].item = 0
    /\ bridge <= Len(procRoot.entries)
    /\ worker' = [worker EXCEPT ![w].item = bridge]
    /\ bridge' = bridge + 1
    /\ visits' = Append(visits, bridge)
    /\ UNCHANGED <<parPc, parResult, scanResult, parseVars, sigVars, envVars, mainVars>>

\* the closure's outcome replaces the worker's vector
ParCheck_overwrite(w) ==
    /\ parPc = "run"
    /\ worker[w].item # 0
    /\ LET e == procRoot.entries[worker[w].item]
           r == IF e.ok THEN check_entry(e, target) ELSE None
       IN  worker' = [worker EXCEPT ![w] = [item |-> 0, acc |-> r]]
    /\ UNCHANGED <<parPc, bridge, parResult, visits, scanResult,
                   parseVars, sigVars, envVars, mainVars>>

\* the worker runs |e| e.ok().and_then(|entry| check_entry(&entry, target_bytes))
\* on its item and keeps a Some
ParCheck(w) ==
    /\ parPc = "run"
    /\ worker[w].item # 0
    /\ LET e == procRoot.entries[worker[w].item]
           r == IF e.ok THEN check_entry(e, target) ELSE None
       IN  worker' = [worker EXCEPT ![w] = [item |-> 0, acc |-> @.acc \o r]]
    /\ UNCHANGED <<parPc, bridge, parResult, visits, scanResult,
                   parseVars, sigVars, envVars, mainVars>>

RECURSIVE Concat(_, _)
Concat(accs, order) ==
    IF order = <<>> THEN <<>> ELSE accs[Head(order)].acc \o Concat(accs, Tail(order))

WorkerOrders ==
    {o \in [Workers -> Workers] : \A a, b \in Workers : o[a] = o[b] => a = b}

\* collect(): the iterator is exhausted and every worker is done; the vectors
\* are appended in the order the work was split, which the scheduler decides
ParCollect ==
    /\ parPc = "run"
    /\ bridge > Len(procRoot.entries)
    /\ \A w \in Workers : worker[w].item = 0
    /\ \E o \in WorkerOrders : parResult' = <<Ok(Concat(worker, o))>>
    /\ parPc' = "done"
    /\ UNCHANGED <<bridge, worker, visits, scanResult, parseVars, sigVars, envVars, mainVars>>

NextPar == ParReadDir \/ (\E w \in Workers : ParTake(w) \/ ParCheck(w)) \/ ParCollect

SpecPar == InitPar /\ [][NextPar]_vars

\* C10: whatever the interleaving, the parallel call returns what the
\* sequential call returns on the same table, up to order (an Err alike, and
\* every identifier as often); every entry was handed to exactly one task; and
\* the scan is never stuck before its result is there.
C10_ParallelSameSet ==
    /\ parResult # <<>> =>
          LET seq == list_pids_by_comm(procRoot, target)
              par == parResult[1]
          IN  /\ par.ok = seq.ok
              /\ \A p \in Range(seq.pids) \cup Range(par.pids) :
                    Count(par.pids, p) = Count(seq.pids, p)
              /\ par.ok => \A i \in 1..Len(procRoot.entries) : Count(visits, i) = 1
    /\ parPc = "done" <=> parResult # <<>>
    /\ parPc = "run" =>
          \/ \E w \in Workers : worker[w].item # 0
          \/ bridge <= Len(procRoot.entries)
          \/ ENABLED ParCollect

\* C10, witness: two tasks matched on different workers and the result lists
\* the matches in the reverse of the directory order
C10_Witness ==
    /\ parResult # <<>>
    /\ Len(parResult[1].pids) = 2
    /\ \E w \in Workers : Len(worker[w].acc) = 1
    /\ parResult[1].pids[1] = list_pids_by_comm(procRoot, target).pids[2]
    /\ parResult[1].pids[2] = list_pids_by_comm(procRoot, target).pids[1]
    /\ parResult[1].pids[1] # parResult[1].pids[2]

---------------------------------------------------------------------------
(* Specification Spec: main.  The arguments are what clap accepts: a list  *)
(* flag, an optional signal name and the process names, of which there is  *)
(* at least one unless the list flag is set.                               *)

MAX_NAMES == 64
MaxNames == 2
MaxProcs == 2

\* "x", "y"
NamePool == { <<120>>, <<121>> }

\* no -s, "term", "KILL", "nope"
SignalArgs ==
    { None, Some(<<116, 101, 114, 109>>), Some(<<75, 73, 76, 76>>),
      Some(<<110, 111, 112, 101>>) }

\* "1", "01", "4294967295" running "x" or "y"
MainPool ==
    {DirEntry(n, c) : n \in {<<49>>, <<48, 49>>, MaxU32Numeral},
                      c \in {File(<<120, NL>>), File(<<121, NL>>)}}

\* n names, all "x"
AllX(n) == [i \in 1..n |-> <<120>>]

InitMain ==
    /\ \/ /\ args \in [list : BOOLEAN, signal : SignalArgs,
                       process_names : SeqsUpTo(NamePool, MaxNames)]
          /\ procRoot \in [listable : {TRUE}, entries : Listings(MainPool, MaxProcs)]
       \/ /\ args \in [list : BOOLEAN, signal : SignalArgs,
                       process_names : {AllX(MAX_NAMES), AllX(MAX_NAMES + 1)}]
          /\ procRoot \in [listable : {TRUE}, entries : Listings(MainPool, 1)]
    /\ args.list \/ Len(args.process_names) >= 1
    /\ target = <<>>
    /\ pc = "start" /\ sig = "" /\ idx = 0 /\ pids = <<>> /\ k = 0
    /\ delivered = <<>> /\ sent = {} /\ discoveries = 0
    /\ flags = [miss |-> FALSE, discErr |-> FALSE, killErr |-> FALSE, listed |-> FALSE]
    /\ exitCode = -1
    /\ ParseIdle /\ SigIdle /\ ScanIdle /\ ParIdle

mainEnv == <<procRoot, target, parseVars, sigVars, scanVars, parVars>>

\* if args.list { println!(list_signals()); return; }
CheckList ==
    /\ pc = "start"
    /\ IF args.list
       THEN /\ flags' = [flags EXCEPT !.listed = TRUE]
            /\ exitCode' = 0
            /\ pc' = "done"
       ELSE /\ pc' = "check_names"
            /\ UNCHANGED <<flags, exitCode>>
    /\ UNCHANGED <<args, sig, idx, pids, k, delivered, sent, discoveries, mainEnv>>

\* if args.process_names.len() > MAX_NAMES { ...; process::exit(1); }
CheckNames ==
    /\ pc = "check_names"
    /\ IF Len(args.process_names) > MAX_NAMES
       THEN exitCode' = 1 /\ pc' = "done"
       ELSE exitCode' = exitCode /\ pc' = "resolve"
    /\ UNCHANGED <<args, sig, idx, pids, k, delivered, sent, discoveries, flags, mainEnv>>

\* an unknown signal name falls back to SIGTERM
ResolveSignal_fallback ==
    /\ pc = "resolve"
    /\ LET s == IF args.signal = None THEN None ELSE parse_signal(args.signal[1])
       IN  sig' = IF s = None THEN "SIGTERM" ELSE s[1]
    /\ pc' = "loop"
    /\ idx' = 1
    /\ UNCHANGED <<args, pids, k, delivered, sent, discoveries, flags, exitCode, mainEnv>>

\* let sig = match args.signal.as_deref() { .. }
ResolveSignal ==
    /\ pc = "resolve"
    /\ IF args.signal = None
       THEN sig' = "SIGTERM" /\ pc' = "loop" /\ idx' = 1 /\ exitCode' = exitCode
       ELSE LET s == parse_signal(args.signal[1])
            IN  IF s = None
                THEN sig' = sig /\ pc' = "done" /\ idx' = idx /\ exitCode' = 1
                ELSE sig' = s[1] /\ pc' = "loop" /\ idx' = 1 /\ exitCode' = exitCode
    /\ UNCHANGED <<args, pids, k, delivered, sent, discoveries, flags, mainEnv>>

\* the head of one iteration of `for process_name in args.process_names.iter()`:
\* list_pids_by_comm, which fails when /proc cannot be listed at that moment
Discover ==
    /\ pc = "loop"
    /\ idx <= Len(args.process_names)
    /\ discoveries' = discoveries + 1
    /\ delivered' = <<>>
    /\ \E listable \in BOOLEAN :
          LET r == list_pids_by_comm([procRoot EXCEPT !.listable = listable],
                                     args.process_names[idx])
          IN  IF ~r.ok
              THEN /\ flags' = [flags EXCEPT !.discErr = TRUE]
                   /\ pids' = <<>> /\ k' = 0 /\ idx' = idx + 1 /\ pc' = "loop"
              ELSE IF r.pids = <<>>
              THEN /\ flags' = [flags EXCEPT !.miss = TRUE]
                   /\ pids' = <<>> /\ k' = 0 /\ idx' = idx + 1 /\ pc' = "loop"
              ELSE /\ flags' = flags
                   /\ pids' = r.pids /\ k' = 1 /\ idx' = idx /\ pc' = "kill"
    /\ UNCHANGED <<args, sig, sent, exitCode, mainEnv>>

\* one iteration of `for pid in pids`: kill(Pid::from_raw(pid as i32), sig),
\* which the system accepts or rejects
Kill ==
    /\ pc = "kill"
    /\ k <= Len(pids)
    /\ sent' = sent \cup {[pid |-> as_i32(pids[k]), sig |-> sig]}
    /\ delivered' = Append(delivered, pids[k])
    /\ \E accepted \in BOOLEAN :
          flags' = [flags EXCEPT !.killErr = @ \/ ~accepted]
    /\ IF k = Len(pids)
       THEN pc' = "loop" /\ idx' = idx + 1 /\ k' = k + 1
       ELSE pc' = "kill" /\ idx' = idx /\ k' = k + 1
    /\ UNCHANGED <<args, sig, pids, discoveries, exitCode, mainEnv>>

\* main returns after the last name
Return ==
    /\ pc = "loop"
    /\ idx > Len(args.process_names)
    /\ exitCode' = 0
    /\ pc' = "done"
    /\ UNCHANGED <<args, sig, idx, pids, k, delivered, sent, discoveries, flags, mainEnv>>

Init == InitMain

Next == CheckList \/ CheckNames \/ ResolveSignal \/ Discover \/ Kill \/ Return

Spec == Init /\ [][Next]_vars

\* ---- what the claims say about a run

UnknownSignal == args.signal # None /\ parse_signal(args.signal[1]) = None
TooManyNames == Len(args.process_names) > MAX_NAMES

\* C4 as written: a run in which some requested name matched no process ends
\* with a non-zero exit status.
C4_AsClaimed ==
    (pc = "done" /\ flags.miss) => exitCode # 0

\* C5 as written: when the loop is done with a name, delivery was attempted
\* exactly once for every identifier matched for it, whatever happened to the
\* other deliveries and names; and the loop ends having taken up every name.
C5_AsClaimed ==
    /\ pc \in {"loop", "done"} => \A p \in Range(pids) : Count(delivered, p) = 1
    /\ (pc = "done" /\ ~args.list /\ ~TooManyNames /\ ~UnknownSignal) =>
          /\ idx = Len(args.process_names) + 1
          /\ discoveries = Len(args.process_names)

\* C7 as written: with an unknown signal name or more than MAX_NAMES names the
\* run ends with a non-zero status and nothing is discovered or signalled;
\* without a signal name every signal sent is SIGTERM; with the list flag no
\* signal is sent.
C7_AsClaimed ==
    /\ (UnknownSignal \/ TooManyNames) =>
          /\ sent = {} /\ discoveries = 0
          /\ pc = "done" => exitCode # 0
    /\ args.signal = None => \A s \in sent : s.sig = "SIGTERM"
    /\ args.list => sent = {}

\* C7 amended: the list flag is tested first, and a run with it sends nothing
\* and ends with status 0 whatever the other arguments are; without the list
\* flag, an unknown signal name or more than MAX_NAMES names end the run with
\* status 1 before any discovery or delivery; without a signal name every
\* signal sent is SIGTERM.
C7_Amended ==
    /\ (~args.list /\ (UnknownSignal \/ TooManyNames)) =>
          /\ sent = {} /\ discoveries = 0
          /\ pc = "done" => exitCode = 1
    /\ (discoveries > 0 \/ sent # {}) =>
          /\ pc \in {"loop", "kill", "done"}
          /\ ~TooManyNames /\ ~UnknownSignal
          /\ \A s \in sent : s.sig = sig
    /\ args.signal = None => \A s \in sent : s.sig = "SIGTERM"
    /\ args.list =>
          /\ sent = {} /\ discoveries = 0
          /\ pc = "done" => exitCode = 0

\* C7, witness: a run without the list flag, with an unknown signal name and
\* a name that a process of the table carries, has ended with status 1
C7_Witness ==
    /\ pc = "done"
    /\ ~args.list
    /\ UnknownSignal
    /\ exitCode = 1
    /\ \E i \in 1..Len(args.process_names) :
          list_pids_by_comm(procRoot, args.process_names[i]).pids # <<>>

\* C8 as written: every identifier handed to kill is strictly positive.
C8_AsClaimed ==
    \A s \in sent : s.pid > 0

====
